---- MODULE Spec2Model ----
(***************************************************************************)
(* Model of the PDF -> CBZ converter of src/pdf_to_cbz.py:                 *)
(* Converter.convert() with its process pool of process_page() tasks,      *)
(* Converter.analyse(), the file at the output path and the two renderers  *)
(* (pdftocairo, then pdf2image).  convert() and process_page() of          *)
(* src/pdf_to_cbz_gui.py are the same code with an optional progress       *)
(* callback; its analyse-only task is modelled by GuiAnalyse.              *)
(***************************************************************************)
EXTENDS Integers, Sequences, FiniteSets, TLC

(* ------------------------------ bounds -------------------------------- *)
\* largest page count of an input document
MaxPages == 3
\* largest `threads` value given to the Converter
MaxThreads == 2
\* widest first page, in points, calculate_clarity_dpi is called on by itself
MaxCalcWidth == 1500
\* largest page count of a document main() is started on
MainPages == 1
\* largest page count of a document converted more than once by one Converter
TwicePages == 1
\* largest number of convert() calls made on one Converter
MaxRuns == 2
\* largest number of background tasks the Run button starts in one session
MaxGuiTasks == 3
\* largest number of preview updates requested in one preview window
MaxPreviews == 3
\* largest number of setup_logging calls in one process
MaxSetups == 3
\* largest number of ConfigManager objects made in one process
MaxManagers == 2

(* ------------------------- program constants -------------------------- *)
\* target_width of calculate_clarity_dpi
TargetWidth == 2000
\* points per inch
PointsPerInch == 72
\* minimum DPI of calculate_clarity_dpi (pdf_to_cbz.py)
MinDpi == 100
\* default of --quality
DefaultQuality == 85
\* MIN_DPI of calculate_clarity_dpi (pdf_to_cbz_gui.py)
GuiMinDpi == 150
\* what calculate_clarity_dpi of pdf_to_cbz_gui.py returns for a document with
\* no page or a first page of width <= 0
GuiDefaultDpi == 150
\* field width of the page number in an entry name ({page_num:03d})
PageFieldWidth == 3

(* ------------------------------ inputs -------------------------------- *)
\* --format choices
Formats == {"jpeg", "png"}
\* --dpi: 0 stands for "not given" (None); `not self.dpi` is also true of 0
DpiOverrides == {0, 200}
\* media-box width of the first page, in points (0: a degenerate page)
Widths == {0, 595}
\* stem of the input path
Stem == "doc"

\* what subprocess.run(pdftocairo ...) can do for one page
PrimaryOutcomes ==
    {"not_found", "raised", "nonzero", "zero_nofile", "zero_single", "zero_multi"}
\* the outcomes after which process_page returns the primary's file
PrimaryProduced == {"zero_single", "zero_multi"}
\* what convert_from_path(...) + save can do for one page
FallbackOutcomes == {"image", "no_images", "fb_raised"}

(* ----------------------------- entry names ---------------------------- *)
DigitChars == <<"0", "1", "2", "3", "4", "5", "6", "7", "8", "9">>

RECURSIVE Digits(_)
\* decimal digits of n >= 0, most significant first
Digits(n) ==
    IF n < 10 THEN <<DigitChars[n + 1]>>
    ELSE Digits(n \div 10) \o <<DigitChars[(n % 10) + 1]>>

RECURSIVE ZeroPad(_, _)
\* format spec 0{w}d: pad on the left with zeros up to width w, never cut
ZeroPad(s, w) == IF Len(s) >= w THEN s ELSE ZeroPad(<<"0">> \o s, w)

\* ext = "jpg" if self.fmt == "jpeg" else "png"
ExtOf(fmt) == IF fmt = "jpeg" THEN "jpg" ELSE "png"

\* f"{self.input_pdf.stem}_{page_num:03d}.{ext}"
EntryName(stem, page, ext) ==
    <<stem, "_">> \o ZeroPad(Digits(page), PageFieldWidth) \o <<".", ext>>

(* ------------------------------ images -------------------------------- *)
\* bytes read from pdftocairo's output file: cmd carries fmt, dpi and page, no quality
PrimaryBytes(page, dpi, fmt) ==
    [renderer |-> "pdftocairo", page |-> page, dpi |-> dpi, fmt |-> fmt, quality |-> 0]

\* bytes of images[0].save(buf, format, **save_kwargs): quality only for jpeg
FallbackBytes(page, dpi, fmt, quality) ==
    [renderer |-> "pdf2image", page |-> page, dpi |-> dpi, fmt |-> fmt,
     quality |-> IF fmt = "jpeg" THEN quality ELSE 0]

NoBytes == [renderer |-> "none", page |-> 0, dpi |-> 0, fmt |-> "none", quality |-> 0]

(* --------------------------- the output path -------------------------- *)
\* no file at output_cbz
NoFile == [exists |-> FALSE, entries |-> <<>>]
\* a file left at output_cbz by something earlier
StaleFile ==
    [exists |-> TRUE,
     entries |-> <<[name |-> <<"old", ".", "bin">>,
                    data |-> [renderer |-> "stale", page |-> 0, dpi |-> 0,
                              fmt |-> "none", quality |-> 0]]>>]
\* zipfile.ZipFile(path, "w"): the file is created, or truncated, with no entry
NewArchive == [exists |-> TRUE, entries |-> <<>>]

(* ------------------------------- state -------------------------------- *)
VARIABLES
    doc,        \* the input document: readable, page count, first-page width
    conv,       \* the Converter's fields: dpi, fmt, quality, threads
    outFile,    \* the file at output_cbz
    zfOpen,     \* the ZipFile handle of convert() is open
    op,         \* the operation called on the Converter
    pc,         \* where the orchestrating thread is
    total,      \* convert()'s local `total`
    submitted,  \* number of futures created so far by executor.submit
    task,       \* per page: the render task of that page
    collected,  \* pages whose future as_completed has yielded
    failLog,    \* per page: how often "Failed to convert page" was logged for it
    raised,     \* the exception that ended the operation, or "none"
    est,        \* the dpi given to __init__, the calls of calculate_clarity_dpi
                \* made by convert() and what the last one returned
    writeFault, \* pages for which zf.writestr raises (disk full, I/O error)
    cli,        \* the input path main() was started on: is a file, its suffix
    calc,       \* one call of calculate_clarity_dpi on its own: variant, status, result
    merge,      \* one call of ConfigManager.get_effective_config: args, config, result
    cb,         \* convert()'s progress_callback: given or not, and the calls made of it
    run,        \* number of convert() calls this Converter has completed before
    gui,        \* the main window: the Run button and the background tasks
    prev,       \* the preview window: requests, render threads, what is displayed
    logg,       \* the root logger: its level and its handlers
    cfgs        \* ConfigManager: DEFAULT_CONFIG and the instances' config dicts

vars == <<doc, conv, outFile, zfOpen, op, pc, total, submitted, task, collected,
          failLog, raised, est, writeFault, cli, calc, merge, cb, run, gui, prev,
          logg, cfgs>>

\* the variables no step of convert(), process_page or analyse() assigns
otherVars == <<writeFault, cli, calc, merge, run, gui, prev, logg, cfgs>>

Pages == 1..doc.pages

\* a task nobody has submitted yet
NoTask ==
    [st |-> "none", last |-> "none", primCalls |-> 0, fbCalls |-> 0,
     primPage |-> 0, primDpi |-> 0, fbPage |-> 0, fbDpi |-> 0,
     tmp |-> FALSE, td |-> 0, ok |-> FALSE, name |-> <<>>, data |-> NoBytes]

\* tasks a worker process is executing
Running == {p \in Pages : task[p].st \in {"primary", "fallback"}}

\* names of the temporary directories that exist
TmpLive == {task[q].td : q \in {r \in Pages : task[r].tmp}}

\* tempfile.TemporaryDirectory(): mkdtemp makes a directory under a random name
\* that does not exist; the names are numbered here in the order the
\* directories are made, and no name is used twice
FreshTmp == 1 + Cardinality({q \in Pages : task[q].primCalls > 0})

\* an input path main() accepts; no exit status yet
PdfPath == [isFile |-> TRUE, suffix |-> <<".", "p", "d", "f">>, exitCode |-> -1]
\* calculate_clarity_dpi not being called on its own
NoCalc == [variant |-> "none", status |-> "idle", result |-> 0, exc |-> "none"]
\* get_effective_config not being called
NoMerge == [status |-> "idle"]
\* convert() called without a progress_callback (command-line mode)
NoCallback == [given |-> FALSE, completed |-> 0, calls |-> <<>>]
\* no main window
NoGui == [status |-> "idle"]
\* no preview window
NoPrev == [status |-> "idle"]
\* logging left alone
NoLog == [status |-> "idle"]
\* no ConfigManager in use
NoCfgs == [status |-> "idle"]

\* the parts of the program that are not running
QuietRest ==
    /\ cb = NoCallback
    /\ run = 0
    /\ gui = NoGui
    /\ prev = NoPrev
    /\ logg = NoLog
    /\ cfgs = NoCfgs

\* a Converter after __init__, the document it was made for and the output path
InitJob ==
    /\ doc \in {d \in [readable : BOOLEAN, pages : 0..MaxPages, width : Widths] :
                    /\ (~d.readable => d.pages = 0)
                    /\ (d.pages = 0 => d.width = 0)}
    /\ conv \in [dpi : DpiOverrides, fmt : Formats, quality : {DefaultQuality},
                 threads : 0..MaxThreads]
    /\ outFile \in {NoFile, StaleFile}
    /\ zfOpen = FALSE
    /\ op = "none"
    /\ total = 0
    /\ submitted = 0
    /\ task = [p \in Pages |-> NoTask]
    /\ collected = {}
    /\ failLog = [p \in Pages |-> 0]
    /\ raised = "none"
    /\ est = [arg |-> conv.dpi, calls |-> 0, value |-> 0]

Init ==
    /\ InitJob
    /\ pc = "idle"
    /\ writeFault = {}
    /\ cli = PdfPath
    /\ calc = NoCalc
    /\ merge = NoMerge
    /\ QuietRest

(* ------------------------- calculate_clarity_dpi ---------------------- *)
\* int(x) of a quotient a / b with b > 0: truncation toward zero
TruncDiv(a, b) == IF a >= 0 THEN a \div b ELSE -((-a) \div b)

\* round(a / b) for a >= 0, b > 0: to the nearest integer, a tie to the even one
RoundHalfEven(a, b) ==
    LET q == a \div b
        r == a % b
    IN  IF 2 * r > b THEN q + 1
        ELSE IF 2 * r < b THEN q
        ELSE IF q % 2 = 0 THEN q ELSE q + 1

\* ClarityDpi with the quotient rounded to the nearest integer
ClarityDpiRounded(widthPt) ==
    LET dpi == RoundHalfEven(TargetWidth * PointsPerInch, widthPt)
    IN  IF dpi > MinDpi THEN dpi ELSE MinDpi

\* dpi = max(int(target_width / width_pt * 72), 100), for width_pt > 0
ClarityDpi(widthPt) ==
    LET dpi == TruncDiv(TargetWidth * PointsPerInch, widthPt)
    IN  IF dpi > MinDpi THEN dpi ELSE MinDpi

(* ------------------------------ convert() ----------------------------- *)
\* ConvertReadPages with the archive opened before the document is read
ConvertReadPagesAfterOpen ==
    /\ pc = "idle"
    /\ op' = "convert"
    /\ outFile' = NewArchive
    /\ IF doc.readable
         THEN /\ pc' = "resolve_dpi"
              /\ total' = doc.pages
              /\ raised' = raised
         ELSE /\ pc' = "failed"
              /\ raised' = "PdfReadError"
              /\ total' = total
    /\ UNCHANGED <<doc, conv, zfOpen, submitted, task, collected, failLog>>
    /\ UNCHANGED <<est, cb, otherVars>>

\* reader = PdfReader(...); total = len(reader.pages)
ConvertReadPages ==
    /\ pc = "idle"
    /\ op' = "convert"
    /\ IF doc.readable
         THEN /\ pc' = "resolve_dpi"
              /\ total' = doc.pages
              /\ raised' = raised
         ELSE /\ pc' = "failed"
              /\ raised' = "PdfReadError"
              /\ total' = total
    /\ UNCHANGED <<doc, conv, outFile, zfOpen, submitted, task, collected, failLog>>
    /\ UNCHANGED <<est, cb, otherVars>>

\* ConvertResolveDpi without the test of self.dpi: the estimate replaces an override
ConvertResolveDpiAlways ==
    /\ pc = "resolve_dpi"
    /\ IF doc.pages = 0
         THEN /\ pc' = "failed"
              /\ raised' = "IndexError"
              /\ conv' = conv
              /\ est' = [est EXCEPT !.calls = @ + 1]
         ELSE IF doc.width = 0
         THEN /\ pc' = "failed"
              /\ raised' = "ZeroDivisionError"
              /\ conv' = conv
              /\ est' = [est EXCEPT !.calls = @ + 1]
         ELSE /\ pc' = "open"
              /\ conv' = [conv EXCEPT !.dpi = ClarityDpi(doc.width)]
              /\ raised' = raised
              /\ est' = [est EXCEPT !.calls = @ + 1, !.value = ClarityDpi(doc.width)]
    /\ UNCHANGED <<doc, outFile, zfOpen, op, total, submitted, task, collected, failLog>>
    /\ UNCHANGED <<cb, otherVars>>

\* if not self.dpi: self.dpi = self.calculate_clarity_dpi()
ConvertResolveDpi ==
    /\ pc = "resolve_dpi"
    /\ IF conv.dpi # 0
         THEN /\ pc' = "open"
              /\ UNCHANGED <<conv, raised, est>>
         ELSE IF doc.pages = 0
         THEN /\ pc' = "failed"
              /\ raised' = "IndexError"
              /\ conv' = conv
              /\ est' = [est EXCEPT !.calls = @ + 1]
         ELSE IF doc.width = 0
         THEN /\ pc' = "failed"
              /\ raised' = "ZeroDivisionError"
              /\ conv' = conv
              /\ est' = [est EXCEPT !.calls = @ + 1]
         ELSE /\ pc' = "open"
              /\ conv' = [conv EXCEPT !.dpi = ClarityDpi(doc.width)]
              /\ raised' = raised
              /\ est' = [est EXCEPT !.calls = @ + 1, !.value = ClarityDpi(doc.width)]
    /\ UNCHANGED <<doc, outFile, zfOpen, op, total, submitted, task, collected, failLog>>
    /\ UNCHANGED <<cb, otherVars>>

\* ConvertOpenArchive with mode "a": an existing file keeps its entries
ConvertOpenArchiveAppend ==
    /\ pc = "open"
    /\ outFile' = [exists |-> TRUE, entries |-> outFile.entries]
    /\ zfOpen' = TRUE
    /\ pc' = "pool"
    /\ UNCHANGED <<doc, conv, op, total, submitted, task, collected, failLog, raised>>
    /\ UNCHANGED <<est, cb, otherVars>>

\* output_cbz.parent.mkdir(...); with zipfile.ZipFile(self.output_cbz, "w") as zf
ConvertOpenArchive ==
    /\ pc = "open"
    /\ outFile' = NewArchive
    /\ zfOpen' = TRUE
    /\ pc' = "pool"
    /\ UNCHANGED <<doc, conv, op, total, submitted, task, collected, failLog, raised>>
    /\ UNCHANGED <<est, cb, otherVars>>

\* ProcessPoolExecutor(max_workers=self.threads) as executor: ValueError for
\* max_workers <= 0, which unwinds through zf.__exit__ (zf.close())
ConvertStartPool ==
    /\ pc = "pool"
    /\ IF conv.threads <= 0
         THEN /\ zfOpen' = FALSE
              /\ pc' = "failed"
              /\ raised' = "ValueError"
         ELSE /\ pc' = "submit"
              /\ UNCHANGED <<zfOpen, raised>>
    /\ UNCHANGED <<doc, conv, outFile, op, total, submitted, task, collected, failLog>>
    /\ UNCHANGED <<est, cb, otherVars>>

\* one iteration of {executor.submit(self.process_page, i + 1): i + 1 for i in range(total)}
ConvertSubmit ==
    /\ pc = "submit"
    /\ IF submitted < total
         THEN /\ submitted' = submitted + 1
              /\ task' = [task EXCEPT ![submitted + 1].st = "queued"]
              /\ pc' = pc
         ELSE /\ pc' = "collect"
              /\ UNCHANGED <<submitted, task>>
    /\ UNCHANGED <<doc, conv, outFile, zfOpen, op, total, collected, failLog, raised>>
    /\ UNCHANGED <<est, cb, otherVars>>

(* ---------------------------- process_page ---------------------------- *)
\* StartTask with no limit on the number of tasks executing
StartTaskUnbounded(p) ==
    /\ task[p].st = "queued"
    /\ \A q \in Pages : task[q].st = "queued" => p <= q
    /\ conv.threads > 0
    /\ task' = [task EXCEPT ![p].st = "primary",
                            ![p].tmp = TRUE,
                            ![p].td = FreshTmp,
                            ![p].primCalls = @ + 1,
                            ![p].primPage = p,
                            ![p].primDpi = conv.dpi]
    /\ UNCHANGED <<doc, conv, outFile, zfOpen, op, pc, total, submitted, collected,
                   failLog, raised>>
    /\ UNCHANGED <<est, cb, otherVars>>

\* a free worker takes the oldest queued call, enters process_page, makes its
\* temporary directory and runs cmd (pdftocairo -fmt -r dpi -f page -l page)
StartTask(p) ==
    /\ task[p].st = "queued"
    /\ \A q \in Pages : task[q].st = "queued" => p <= q
    /\ Cardinality(Running) < conv.threads
    /\ task' = [task EXCEPT ![p].st = "primary",
                            ![p].tmp = TRUE,
                            ![p].td = FreshTmp,
                            ![p].primCalls = @ + 1,
                            ![p].primPage = p,
                            ![p].primDpi = conv.dpi]
    /\ UNCHANGED <<doc, conv, outFile, zfOpen, op, pc, total, submitted, collected,
                   failLog, raised>>
    /\ UNCHANGED <<est, cb, otherVars>>

\* PrimaryExit that gives the page up when pdftocairo exits zero without a file
PrimaryExitNoFileRaises(p, o) ==
    /\ task[p].st = "primary"
    /\ IF o \in PrimaryProduced
         THEN task' = [task EXCEPT ![p].st = "done",
                                   ![p].last = o,
                                   ![p].tmp = FALSE,
                                   ![p].td = 0,
                                   ![p].ok = TRUE,
                                   ![p].data = PrimaryBytes(task[p].primPage,
                                                            task[p].primDpi, conv.fmt),
                                   ![p].name = EntryName(Stem, p, ExtOf(conv.fmt))]
         ELSE IF o = "zero_nofile"
         THEN task' = [task EXCEPT ![p].st = "done",
                                   ![p].last = o,
                                   ![p].tmp = FALSE,
                                   ![p].td = 0,
                                   ![p].ok = FALSE]
         ELSE task' = [task EXCEPT ![p].st = "fallback",
                                   ![p].last = o,
                                   ![p].fbCalls = @ + 1,
                                   ![p].fbPage = p,
                                   ![p].fbDpi = conv.dpi]
    /\ UNCHANGED <<doc, conv, outFile, zfOpen, op, pc, total, submitted, collected,
                   failLog, raised>>
    /\ UNCHANGED <<est, cb, otherVars>>

\* PrimaryExit in which the worker itself writes the image into the archive
PrimaryExitWritesArchive(p, o) ==
    /\ task[p].st = "primary"
    /\ IF o \in PrimaryProduced
         THEN /\ task' = [task EXCEPT ![p].st = "done",
                                      ![p].last = o,
                                      ![p].tmp = FALSE,
                                      ![p].td = 0,
                                      ![p].ok = FALSE]
              /\ outFile' = [outFile EXCEPT !.entries =
                                Append(@, [name |-> EntryName(Stem, p, ExtOf(conv.fmt)),
                                           data |-> PrimaryBytes(task[p].primPage,
                                                                 task[p].primDpi, conv.fmt)])]
         ELSE /\ task' = [task EXCEPT ![p].st = "fallback",
                                      ![p].last = o,
                                      ![p].fbCalls = @ + 1,
                                      ![p].fbPage = p,
                                      ![p].fbDpi = conv.dpi]
              /\ outFile' = outFile
    /\ UNCHANGED <<doc, conv, zfOpen, op, pc, total, submitted, collected,
                   failLog, raised>>
    /\ UNCHANGED <<est, cb, otherVars>>

\* PrimaryExit that takes the image only when pdftocairo left a single file, and
\* runs the fallback as well when it left several
PrimaryExitSingleFileOnly(p, o) ==
    /\ task[p].st = "primary"
    /\ IF o = "zero_single"
         THEN task' = [task EXCEPT ![p].st = "done",
                                   ![p].last = o,
                                   ![p].tmp = FALSE,
                                   ![p].td = 0,
                                   ![p].ok = TRUE,
                                   ![p].data = PrimaryBytes(task[p].primPage,
                                                            task[p].primDpi, conv.fmt),
                                   ![p].name = EntryName(Stem, p, ExtOf(conv.fmt))]
         ELSE task' = [task EXCEPT ![p].st = "fallback",
                                   ![p].last = o,
                                   ![p].fbCalls = @ + 1,
                                   ![p].fbPage = p,
                                   ![p].fbDpi = conv.dpi]
    /\ UNCHANGED <<doc, conv, outFile, zfOpen, op, pc, total, submitted, collected,
                   failLog, raised>>
    /\ UNCHANGED <<est, cb, otherVars>>

\* subprocess.run ends with outcome o: return the file's bytes and the name, or
\* go on to convert_from_path(dpi=self.dpi, first_page=page_num, last_page=page_num)
PrimaryExit(p, o) ==
    /\ task[p].st = "primary"
    /\ IF o \in PrimaryProduced
         THEN task' = [task EXCEPT ![p].st = "done",
                                   ![p].last = o,
                                   ![p].tmp = FALSE,
                                   ![p].td = 0,
                                   ![p].ok = TRUE,
                                   ![p].data = PrimaryBytes(task[p].primPage,
                                                            task[p].primDpi, conv.fmt),
                                   ![p].name = EntryName(Stem, p, ExtOf(conv.fmt))]
         ELSE task' = [task EXCEPT ![p].st = "fallback",
                                   ![p].last = o,
                                   ![p].fbCalls = @ + 1,
                                   ![p].fbPage = p,
                                   ![p].fbDpi = conv.dpi]
    /\ UNCHANGED <<doc, conv, outFile, zfOpen, op, pc, total, submitted, collected,
                   failLog, raised>>
    /\ UNCHANGED <<est, cb, otherVars>>

\* FallbackReturn that names the entry after the number of tasks finished so far
FallbackReturnNamedByOrder(p, o) ==
    /\ task[p].st = "fallback"
    /\ IF o = "image"
         THEN task' = [task EXCEPT ![p].st = "done",
                                   ![p].last = o,
                                   ![p].tmp = FALSE,
                                   ![p].td = 0,
                                   ![p].ok = TRUE,
                                   ![p].data = FallbackBytes(task[p].fbPage, task[p].fbDpi,
                                                             conv.fmt, conv.quality),
                                   ![p].name = EntryName(Stem,
                                        Cardinality({q \in Pages : task[q].st = "done"}) + 1,
                                        ExtOf(conv.fmt))]
         ELSE task' = [task EXCEPT ![p].st = "done",
                                   ![p].last = o,
                                   ![p].tmp = FALSE,
                                   ![p].td = 0,
                                   ![p].ok = FALSE]
    /\ UNCHANGED <<doc, conv, outFile, zfOpen, op, pc, total, submitted, collected,
                   failLog, raised>>
    /\ UNCHANGED <<est, cb, otherVars>>

\* FallbackReturn that puts the page back in the queue when the fallback fails
FallbackReturnRetries(p, o) ==
    /\ task[p].st = "fallback"
    /\ IF o = "image"
         THEN task' = [task EXCEPT ![p].st = "done",
                                   ![p].last = o,
                                   ![p].tmp = FALSE,
                                   ![p].td = 0,
                                   ![p].ok = TRUE,
                                   ![p].data = FallbackBytes(task[p].fbPage, task[p].fbDpi,
                                                             conv.fmt, conv.quality),
                                   ![p].name = EntryName(Stem, p, ExtOf(conv.fmt))]
         ELSE IF task[p].primCalls < 2
         THEN task' = [task EXCEPT ![p].st = "queued",
                                   ![p].last = o,
                                   ![p].tmp = FALSE,
                                   ![p].td = 0]
         ELSE task' = [task EXCEPT ![p].st = "done",
                                   ![p].last = o,
                                   ![p].tmp = FALSE,
                                   ![p].td = 0,
                                   ![p].ok = FALSE]
    /\ UNCHANGED <<doc, conv, outFile, zfOpen, op, pc, total, submitted, collected,
                   failLog, raised>>
    /\ UNCHANGED <<est, cb, otherVars>>

\* FallbackReturn whose failure leaves process_page without removing the directory
FallbackReturnLeavesTmp(p, o) ==
    /\ task[p].st = "fallback"
    /\ IF o = "image"
         THEN task' = [task EXCEPT ![p].st = "done",
                                   ![p].last = o,
                                   ![p].tmp = FALSE,
                                   ![p].td = 0,
                                   ![p].ok = TRUE,
                                   ![p].data = FallbackBytes(task[p].fbPage, task[p].fbDpi,
                                                             conv.fmt, conv.quality),
                                   ![p].name = EntryName(Stem, p, ExtOf(conv.fmt))]
         ELSE task' = [task EXCEPT ![p].st = "done",
                                   ![p].last = o,
                                   ![p].ok = FALSE]
    /\ UNCHANGED <<doc, conv, outFile, zfOpen, op, pc, total, submitted, collected,
                   failLog, raised>>
    /\ UNCHANGED <<est, cb, otherVars>>

\* convert_from_path ends with outcome o: return the saved image and the name, or
\* leave the with block (which removes the temporary directory) and raise
\* FileNotFoundError("Unable to render page")
FallbackReturn(p, o) ==
    /\ task[p].st = "fallback"
    /\ IF o = "image"
         THEN task' = [task EXCEPT ![p].st = "done",
                                   ![p].last = o,
                                   ![p].tmp = FALSE,
                                   ![p].td = 0,
                                   ![p].ok = TRUE,
                                   ![p].data = FallbackBytes(task[p].fbPage, task[p].fbDpi,
                                                             conv.fmt, conv.quality),
                                   ![p].name = EntryName(Stem, p, ExtOf(conv.fmt))]
         ELSE task' = [task EXCEPT ![p].st = "done",
                                   ![p].last = o,
                                   ![p].tmp = FALSE,
                                   ![p].td = 0,
                                   ![p].ok = FALSE]
    /\ UNCHANGED <<doc, conv, outFile, zfOpen, op, pc, total, submitted, collected,
                   failLog, raised>>
    /\ UNCHANGED <<est, cb, otherVars>>

(* ----------------------- convert(): the collect loop ------------------ *)
\* ConvertCollect without the except branch: a failed page ends convert()
ConvertCollectAborts(p) ==
    /\ pc = "collect"
    /\ p \notin collected
    /\ task[p].st = "done"
    /\ collected' = collected \cup {p}
    /\ IF task[p].ok
         THEN /\ outFile' = [outFile EXCEPT !.entries =
                                Append(@, [name |-> task[p].name, data |-> task[p].data])]
              /\ UNCHANGED <<pc, zfOpen, raised>>
         ELSE /\ outFile' = outFile
              /\ pc' = "failed"
              /\ zfOpen' = FALSE
              /\ raised' = "FileNotFoundError"
    /\ UNCHANGED <<doc, conv, op, total, submitted, task, failLog>>
    /\ cb' = IF cb.given
                THEN [cb EXCEPT !.completed = @ + 1,
                                !.calls = Append(@, [completed |-> cb.completed + 1,
                                                     total |-> total])]
                ELSE cb
    /\ UNCHANGED <<est, otherVars>>

\* ConvertCollect that counts, and reports to the callback, only the pages written
ConvertCollectCountsWritten(p) ==
    /\ pc = "collect"
    /\ p \notin collected
    /\ task[p].st = "done"
    /\ collected' = collected \cup {p}
    /\ IF task[p].ok /\ p \notin writeFault
         THEN /\ outFile' = [outFile EXCEPT !.entries =
                                Append(@, [name |-> task[p].name, data |-> task[p].data])]
              /\ failLog' = failLog
              /\ cb' = IF cb.given
                          THEN [cb EXCEPT !.completed = @ + 1,
                                          !.calls = Append(@, [completed |-> cb.completed + 1,
                                                               total |-> total])]
                          ELSE cb
         ELSE /\ failLog' = [failLog EXCEPT ![p] = @ + 1]
              /\ outFile' = outFile
              /\ cb' = cb
    /\ UNCHANGED <<doc, conv, zfOpen, op, pc, total, submitted, task, raised>>
    /\ UNCHANGED <<est, otherVars>>

\* one iteration of `for fut in as_completed(futures)`: fut.result(), then
\* zf.writestr(name, img_bytes), or the except branch that logs the page when
\* either of the two raised; with a progress_callback (GUI mode), completed += 1
\* and progress_callback(completed, total) after either
ConvertCollect(p) ==
    /\ pc = "collect"
    /\ p \notin collected
    /\ task[p].st = "done"
    /\ collected' = collected \cup {p}
    /\ IF task[p].ok /\ p \notin writeFault
         THEN /\ outFile' = [outFile EXCEPT !.entries =
                                Append(@, [name |-> task[p].name, data |-> task[p].data])]
              /\ failLog' = failLog
         ELSE /\ failLog' = [failLog EXCEPT ![p] = @ + 1]
              /\ outFile' = outFile
    /\ UNCHANGED <<doc, conv, zfOpen, op, pc, total, submitted, task, raised>>
    /\ cb' = IF cb.given
                THEN [cb EXCEPT !.completed = @ + 1,
                                !.calls = Append(@, [completed |-> cb.completed + 1,
                                                     total |-> total])]
                ELSE cb
    /\ UNCHANGED <<est, otherVars>>

\* as_completed is exhausted: leave the with block (executor.shutdown(wait=True),
\* then zf.close()) and log "Created CBZ"
ConvertFinish ==
    /\ pc = "collect"
    /\ collected = 1..total
    /\ zfOpen' = FALSE
    /\ pc' = "done"
    /\ UNCHANGED <<doc, conv, outFile, op, total, submitted, task, collected, failLog,
                   raised>>
    /\ UNCHANGED <<est, cb, otherVars>>

(* ------------------------- what a run reports ------------------------- *)
\* the pages named by a "Failed to convert page {page}" line of the log
LoggedFailed == {p \in Pages : failLog[p] > 0}
\* the only count a run shows: the position of tqdm's bar, or `completed` of
\* progress_callback(completed, total); one step per future collected, whether
\* its page was written or logged as failed
ProgressCount == Cardinality(collected)

(* ------------------------------ analyse() ----------------------------- *)
\* analyse() that opens the output archive before it reads the document
AnalyseTouchesOutput ==
    /\ pc = "idle"
    /\ op' = "analyse"
    /\ outFile' = NewArchive
    /\ IF ~doc.readable
         THEN /\ pc' = "failed" /\ raised' = "PdfReadError"
         ELSE IF doc.pages = 0
         THEN /\ pc' = "failed" /\ raised' = "ValueError"
         ELSE IF doc.width = 0
         THEN /\ pc' = "failed" /\ raised' = "ZeroDivisionError"
         ELSE /\ pc' = "analysed" /\ raised' = raised
    /\ UNCHANGED <<doc, conv, zfOpen, total, submitted, task, collected, failLog>>
    /\ UNCHANGED <<est, cb, otherVars>>

\* Converter.analyse() of pdf_to_cbz.py (--analyse): read the widths, print the
\* suggested DPIs and their min, max and average
Analyse ==
    /\ pc = "idle"
    /\ op' = "analyse"
    /\ IF ~doc.readable
         THEN /\ pc' = "failed" /\ raised' = "PdfReadError"
         ELSE IF doc.pages = 0
         THEN /\ pc' = "failed" /\ raised' = "ValueError"
         ELSE IF doc.width = 0
         THEN /\ pc' = "failed" /\ raised' = "ZeroDivisionError"
         ELSE /\ pc' = "analysed" /\ raised' = raised
    /\ UNCHANGED <<doc, conv, outFile, zfOpen, total, submitted, task, collected, failLog>>
    /\ UNCHANGED <<est, cb, otherVars>>

\* run_task of the GUI with "analyse only": conv.analyse(), the file size, the
\* recommended DPI and an in-memory render of page 1 for the size projection,
\* whose failure the handler catches; an unreadable document ends in the outer
\* except branch
GuiAnalyse ==
    /\ pc = "idle"
    /\ op' = "gui_analyse"
    /\ IF ~doc.readable
         THEN /\ pc' = "failed" /\ raised' = "PdfReadError"
         ELSE /\ pc' = "analysed" /\ raised' = raised
    /\ UNCHANGED <<doc, conv, outFile, zfOpen, total, submitted, task, collected, failLog>>
    /\ UNCHANGED <<est, cb, otherVars>>

Next ==
    \/ ConvertReadPages
    \/ ConvertResolveDpi
    \/ ConvertOpenArchive
    \/ ConvertStartPool
    \/ ConvertSubmit
    \/ \E p \in Pages : StartTask(p)
    \/ \E p \in Pages, o \in PrimaryOutcomes : PrimaryExit(p, o)
    \/ \E p \in Pages, o \in FallbackOutcomes : FallbackReturn(p, o)
    \/ \E p \in Pages : ConvertCollect(p)
    \/ ConvertFinish
    \/ Analyse
    \/ GuiAnalyse

Spec == Init /\ [][Next]_vars

(* ------------------- convert(progress_callback) of the GUI ------------ *)
\* a Converter as in Init, whose convert() will be given progress_cb
InitGuiConvert ==
    /\ InitJob
    /\ pc = "idle"
    /\ cb = [given |-> TRUE, completed |-> 0, calls |-> <<>>]
    /\ writeFault = {}
    /\ cli = PdfPath
    /\ calc = NoCalc
    /\ merge = NoMerge
    /\ run = 0
    /\ gui = NoGui
    /\ prev = NoPrev
    /\ logg = NoLog
    /\ cfgs = NoCfgs

SpecGuiConvert == InitGuiConvert /\ [][Next]_vars

(* ------------------ convert() called again on a Converter ------------- *)
\* a Converter as in Init, for a document of at most TwicePages pages
InitTwice ==
    /\ InitJob
    /\ doc.pages <= TwicePages
    /\ pc = "idle"
    /\ writeFault = {}
    /\ cli = PdfPath
    /\ calc = NoCalc
    /\ merge = NoMerge
    /\ QuietRest

\* convert() has returned and the caller calls it again on the same object:
\* the locals of the finished call are gone, the object's fields (self.dpi
\* among them) and the file at the output path are as the call left them
ConvertAgain ==
    /\ pc = "done"
    /\ op = "convert"
    /\ run + 1 < MaxRuns
    /\ run' = run + 1
    /\ pc' = "idle"
    /\ op' = "none"
    /\ total' = 0
    /\ submitted' = 0
    /\ task' = [p \in Pages |-> NoTask]
    /\ collected' = {}
    /\ failLog' = [p \in Pages |-> 0]
    /\ UNCHANGED <<doc, conv, outFile, zfOpen, raised, est, writeFault, cli, calc, merge,
                   cb, gui, prev, logg, cfgs>>

NextTwice ==
    \/ ConvertAgain
    \/ Next

SpecTwice == InitTwice /\ [][NextTwice]_vars

(* -------------------------------- main() ------------------------------ *)
\* suffixes of the input path, character by character (<<>>: no suffix)
Suffixes ==
    {<<".", "p", "d", "f">>, <<".", "P", "D", "F">>, <<".", "P", "d", "f">>,
     <<".", "t", "x", "t">>, <<".", "c", "b", "z">>, <<".", "p", "d">>, <<>>}

\* str.lower() on the characters that occur in Suffixes
LowerChar(c) ==
    CASE c = "P" -> "p"
      [] c = "D" -> "d"
      [] c = "F" -> "f"
      [] OTHER -> c
Lower(str) == [i \in 1..Len(str) |-> LowerChar(str[i])]

\* main() has parsed its arguments: a path that is a file or not, with any
\* suffix, a document behind it if it is a file, and the Converter arguments
InitMain ==
    /\ InitJob
    /\ doc.pages <= MainPages
    /\ cli \in [isFile : BOOLEAN, suffix : Suffixes, exitCode : {-1}]
    /\ ~cli.isFile => ~doc.readable
    /\ pc = "main"
    /\ writeFault = {}
    /\ calc = NoCalc
    /\ merge = NoMerge
    /\ QuietRest

\* MainCheckInput that compares the suffix as it is written
MainCheckInputCaseSensitive ==
    /\ pc = "main"
    /\ IF ~cli.isFile \/ cli.suffix # <<".", "p", "d", "f">>
         THEN /\ pc' = "exited"
              /\ cli' = [cli EXCEPT !.exitCode = 1]
         ELSE /\ pc' = "idle"
              /\ cli' = cli
    /\ UNCHANGED <<doc, conv, outFile, zfOpen, op, total, submitted, task, collected,
                   failLog, raised, est, writeFault, calc, merge>>
    /\ UNCHANGED <<cb, run, gui, prev, logg, cfgs>>

\* if not inp.is_file(): sys.exit(1); if inp.suffix.lower() != ".pdf":
\* sys.exit(1); otherwise main() goes on to construct the Converter
MainCheckInput ==
    /\ pc = "main"
    /\ IF ~cli.isFile \/ Lower(cli.suffix) # <<".", "p", "d", "f">>
         THEN /\ pc' = "exited"
              /\ cli' = [cli EXCEPT !.exitCode = 1]
         ELSE /\ pc' = "idle"
              /\ cli' = cli
    /\ UNCHANGED <<doc, conv, outFile, zfOpen, op, total, submitted, task, collected,
                   failLog, raised, est, writeFault, calc, merge>>
    /\ UNCHANGED <<cb, run, gui, prev, logg, cfgs>>

NextMain ==
    \/ MainCheckInput
    \/ Next

SpecMain == InitMain /\ [][NextMain]_vars

(* ------------------ convert() on a failing output medium -------------- *)
\* a Converter as in Init, and one page of the document for which
\* zf.writestr(name, img_bytes) raises
InitWriteFault ==
    /\ InitJob
    /\ pc = "idle"
    /\ writeFault \in {{p} : p \in Pages}
    /\ cli = PdfPath
    /\ calc = NoCalc
    /\ merge = NoMerge
    /\ QuietRest

SpecWriteFault == InitWriteFault /\ [][Next]_vars

(* ---------------- calculate_clarity_dpi, called by itself -------------- *)
\* first-page widths, in whole points
CalcWidths == (-2)..MaxCalcWidth

\* the widths w at which binary64 rounds w / 72 up so that 2000 / (w / 72)
\* comes out just under the integer 144000 / w (75 * 2^k: 119.99999999999999
\* for w = 1200), while 2000 / w * 72 of pdf_to_cbz.py is exact there
GuiShortWidths == {75, 150, 300, 600, 1200}

\* GuiClarityDpi with the quotient upside down: pixels per point times 72
GuiClarityDpiInverted(widthPt) ==
    LET dpi == TruncDiv(widthPt * PointsPerInch, TargetWidth) * PointsPerInch
    IN  IF dpi > GuiMinDpi THEN dpi ELSE GuiMinDpi

\* width_inches = first_page_width_pt / 72.0;
\* calculated_dpi = int(TARGET_PIXEL_WIDTH / width_inches); max(calculated_dpi, MIN_DPI)
GuiClarityDpi(widthPt) ==
    LET exact == TruncDiv(TargetWidth * PointsPerInch, widthPt)
        dpi == IF widthPt \in GuiShortWidths THEN exact - 1 ELSE exact
    IN  IF dpi > GuiMinDpi THEN dpi ELSE GuiMinDpi

\* a readable document of at most one page, and a call about to be made
InitDpi ==
    /\ doc \in {d \in [readable : {TRUE}, pages : {0, 1}, width : CalcWidths] :
                    d.pages = 0 => d.width = 0}
    /\ calc \in [variant : {"cli", "gui"}, status : {"ready"}, result : {0},
                 exc : {"none"}]
    /\ conv = [dpi |-> 0, fmt |-> "jpeg", quality |-> DefaultQuality, threads |-> 1]
    /\ outFile = NoFile
    /\ zfOpen = FALSE
    /\ op = "none"
    /\ pc = "calc"
    /\ total = 0
    /\ submitted = 0
    /\ task = [p \in Pages |-> NoTask]
    /\ collected = {}
    /\ failLog = [p \in Pages |-> 0]
    /\ raised = "none"
    /\ est = [arg |-> 0, calls |-> 0, value |-> 0]
    /\ writeFault = {}
    /\ cli = PdfPath
    /\ merge = NoMerge
    /\ QuietRest

\* calculate_clarity_dpi of pdf_to_cbz.py: reader.pages[0] raises IndexError
\* without a page, the division raises for a width of 0, and a negative
\* quotient is below the minimum
CalculateClarityDpiCli ==
    /\ pc = "calc"
    /\ calc.variant = "cli"
    /\ calc.status = "ready"
    /\ calc' = IF doc.pages = 0
                  THEN [calc EXCEPT !.status = "raised", !.exc = "IndexError"]
                ELSE IF doc.width = 0
                  THEN [calc EXCEPT !.status = "raised", !.exc = "ZeroDivisionError"]
                ELSE IF doc.width < 0
                  THEN [calc EXCEPT !.status = "returned", !.result = MinDpi]
                ELSE [calc EXCEPT !.status = "returned", !.result = ClarityDpi(doc.width)]
    /\ UNCHANGED <<doc, conv, outFile, zfOpen, op, pc, total, submitted, task, collected,
                   failLog, raised, est, writeFault, cli, merge>>
    /\ UNCHANGED <<cb, run, gui, prev, logg, cfgs>>

\* calculate_clarity_dpi of pdf_to_cbz_gui.py: `return 150` for no page and for
\* a width <= 0
CalculateClarityDpiGui ==
    /\ pc = "calc"
    /\ calc.variant = "gui"
    /\ calc.status = "ready"
    /\ calc' = IF doc.pages = 0 \/ doc.width <= 0
                  THEN [calc EXCEPT !.status = "returned", !.result = GuiDefaultDpi]
                ELSE [calc EXCEPT !.status = "returned", !.result = GuiClarityDpi(doc.width)]
    /\ UNCHANGED <<doc, conv, outFile, zfOpen, op, pc, total, submitted, task, collected,
                   failLog, raised, est, writeFault, cli, merge>>
    /\ UNCHANGED <<cb, run, gui, prev, logg, cfgs>>

NextDpi ==
    \/ CalculateClarityDpiCli
    \/ CalculateClarityDpiGui

SpecDpi == InitDpi /\ [][NextDpi]_vars

(* ---------------- ConfigManager.get_effective_config ------------------ *)
\* the settings get_effective_config merges
MergedKeys == {"dpi", "format", "quality", "threads", "poppler_path"}

\* attributes of `args`, written as text; "None": the option was not given
ArgValues ==
    [dpi : {"None", "0", "300"}, format : {"None", "png"},
     quality : {"None", "0", "95"}, threads : {"None", "0", "4"},
     poppler_path : {"None", "/opt/poppler/bin"}]

\* self.config for these keys: DEFAULT_CONFIG updated with the user's file
ConfigValues ==
    [dpi : {"None", "150"}, format : {"jpeg", "png"}, quality : {"85", "70"},
     threads : {"None", "2"}, poppler_path : {"None"}]

\* bool(v) for these values: None, 0 and "" are false
Truthy(v) == v \notin {"None", "0", ""}

\* Or with the operands the other way round: the config value first
OrConfigFirst(a, b) == IF Truthy(b) THEN b ELSE a

\* a or b
Or(a, b) == IF Truthy(a) THEN a ELSE b

\* args parsed and a ConfigManager loaded; get_effective_config about to be called
InitConfig ==
    /\ merge \in [status : {"ready"}, args : ArgValues, config : ConfigValues,
                  effective : {[k \in MergedKeys |-> "None"]}]
    /\ doc = [readable |-> TRUE, pages |-> 0, width |-> 0]
    /\ conv = [dpi |-> 0, fmt |-> "jpeg", quality |-> DefaultQuality, threads |-> 1]
    /\ outFile = NoFile
    /\ zfOpen = FALSE
    /\ op = "none"
    /\ pc = "config"
    /\ total = 0
    /\ submitted = 0
    /\ task = [p \in Pages |-> NoTask]
    /\ collected = {}
    /\ failLog = [p \in Pages |-> 0]
    /\ raised = "none"
    /\ est = [arg |-> 0, calls |-> 0, value |-> 0]
    /\ writeFault = {}
    /\ cli = PdfPath
    /\ calc = NoCalc
    /\ QuietRest

\* effective[k] = getattr(args, k, None) or self.get(k), for the five keys
GetEffectiveConfig ==
    /\ pc = "config"
    /\ merge.status = "ready"
    /\ merge' = [merge EXCEPT
                    !.status = "done",
                    !.effective =
                        [dpi |-> Or(merge.args.dpi, merge.config.dpi),
                         format |-> Or(merge.args.format, merge.config.format),
                         quality |-> Or(merge.args.quality, merge.config.quality),
                         threads |-> Or(merge.args.threads, merge.config.threads),
                         poppler_path |-> Or(merge.args.poppler_path,
                                             merge.config.poppler_path)]]
    /\ UNCHANGED <<doc, conv, outFile, zfOpen, op, pc, total, submitted, task, collected,
                   failLog, raised, est, writeFault, cli, calc>>
    /\ UNCHANGED <<cb, run, gui, prev, logg, cfgs>>

NextConfig == GetEffectiveConfig

SpecConfig == InitConfig /\ [][NextConfig]_vars

(* ------------------- the parts above, when not running ---------------- *)
\* the variables of the converter, of main() and of the two pure functions
jobVars == <<doc, conv, outFile, zfOpen, op, pc, total, submitted, task, collected,
             failLog, raised, est, writeFault, cli, calc, merge>>

\* no Converter at work, no call of main(), calculate_clarity_dpi or
\* get_effective_config under way
QuietJob ==
    /\ doc = [readable |-> TRUE, pages |-> 0, width |-> 0]
    /\ conv = [dpi |-> 0, fmt |-> "jpeg", quality |-> DefaultQuality, threads |-> 1]
    /\ outFile = NoFile
    /\ zfOpen = FALSE
    /\ op = "none"
    /\ total = 0
    /\ submitted = 0
    /\ task = [p \in Pages |-> NoTask]
    /\ collected = {}
    /\ failLog = [p \in Pages |-> 0]
    /\ raised = "none"
    /\ est = [arg |-> 0, calls |-> 0, value |-> 0]
    /\ writeFault = {}
    /\ cli = PdfPath
    /\ calc = NoCalc
    /\ merge = NoMerge

(* ------------------ the Run button of the main window ------------------ *)
\* the widgets create_widgets makes that matter to the Run button: their
\* class, their text, their master and the geometry manager that placed them
Widgets ==
    [browse_input |->
        [class |-> "Button", text |-> "Browse...", master |-> "root", manager |-> "grid"],
     compute_analysis |->
        [class |-> "Button", text |-> "Compute Analysis", master |-> "root",
         manager |-> "grid"],
     button_frame |->
        [class |-> "Frame", text |-> "", master |-> "root", manager |-> "grid"],
     run |->
        [class |-> "Button", text |-> "Run", master |-> "button_frame",
         manager |-> "pack"],
     preview |->
        [class |-> "Button", text |-> "Preview", master |-> "button_frame",
         manager |-> "pack"],
     quit |->
        [class |-> "Button", text |-> "Quit", master |-> "button_frame",
         manager |-> "pack"]]

\* master.grid_slaves(): the widgets grid manages directly in master
GridSlaves(master) ==
    {w \in DOMAIN Widgets : Widgets[w].master = master /\ Widgets[w].manager = "grid"}

\* for widget in self.root.grid_slaves():
\*     if isinstance(widget, tk.Button) and widget["text"] == "Run":
\*         widget.config(state=new)
ConfigRunButtons(states, new) ==
    [w \in DOMAIN Widgets |->
        IF w \in GridSlaves("root") /\ Widgets[w].class = "Button"
               /\ Widgets[w].text = "Run"
          THEN new ELSE states[w]]

\* what the background task of one click does
GuiTaskKinds == {"convert", "analyse"}
\* how run_task leaves its try block
GuiTaskOutcomes == {"finished", "raised"}

\* the number of run_task threads that have not ended
ActiveTasks == Cardinality({i \in DOMAIN gui.tasks : gui.tasks[i].st = "running"})

\* the main window after create_widgets: every button in state normal
InitGuiRun ==
    /\ QuietJob
    /\ pc = "gui"
    /\ gui = [state |-> [w \in DOMAIN Widgets |-> "normal"], tasks |-> <<>>]
    /\ cb = NoCallback
    /\ run = 0
    /\ prev = NoPrev
    /\ logg = NoLog
    /\ cfgs = NoCfgs

\* a click on Run, which Tk delivers only to a button in state normal:
\* start_process returns after an error box for invalid fields, and otherwise
\* configures the Run buttons it finds as disabled and starts a run_task thread
GuiClickRun(valid, kind) ==
    /\ pc = "gui"
    /\ gui.state["run"] = "normal"
    /\ Len(gui.tasks) < MaxGuiTasks
    /\ IF valid
         THEN gui' = [state |-> ConfigRunButtons(gui.state, "disabled"),
                      tasks |-> Append(gui.tasks, [kind |-> kind, st |-> "running"])]
         ELSE gui' = gui
    /\ UNCHANGED <<jobVars, cb, run, prev, logg, cfgs>>

\* run_task i leaves its try block (conversion or analysis done, or the
\* except branch after an error) and its finally block configures the Run
\* buttons it finds as normal
GuiTaskEnds(i, o) ==
    /\ pc = "gui"
    /\ i \in DOMAIN gui.tasks
    /\ gui.tasks[i].st = "running"
    /\ gui' = [state |-> ConfigRunButtons(gui.state, "normal"),
                tasks |-> [gui.tasks EXCEPT ![i].st = o]]
    /\ UNCHANGED <<jobVars, cb, run, prev, logg, cfgs>>

NextGuiRun ==
    \/ \E valid \in BOOLEAN, kind \in GuiTaskKinds : GuiClickRun(valid, kind)
    \/ \E i \in 1..MaxGuiTasks, o \in GuiTaskOutcomes : GuiTaskEnds(i, o)

SpecGuiRun == InitGuiRun /\ [][NextGuiRun]_vars

(* -------------------------- the preview window ------------------------ *)
\* the values the page spinbox, the DPI entry and the quality scale take
PreviewPages == 1..2
PreviewDpis == {72, 150}
PreviewQualities == {50, 85}

\* the preview labels before the first _display_images
NoImage == [page |-> 0, dpi |-> 0, quality |-> 0]
NoInfo == [kind |-> "hint", dpi |-> 0, quality |-> 0]

\* the arguments _update_preview_images hands to the render thread of request i
PreviewArgs(i) ==
    [page |-> prev.reqs[i].page, dpi |-> prev.reqs[i].dpi,
     quality |-> prev.reqs[i].quality]

\* the preview window as open_preview_window builds it: "Loading..." labels,
\* no render thread, no callback waiting in the Tk event loop
InitPreview ==
    /\ QuietJob
    /\ pc = "preview"
    /\ prev = [reqs |-> <<>>, afterQ |-> <<>>, image |-> NoImage, info |-> NoInfo]
    /\ cb = NoCallback
    /\ run = 0
    /\ gui = NoGui
    /\ logg = NoLog
    /\ cfgs = NoCfgs

\* _update_preview_images with three whole-number fields: a daemon thread is
\* started with the values read, and the method returns
UpdatePreviewImages(page, dpi, quality) ==
    /\ pc = "preview"
    /\ Len(prev.reqs) < MaxPreviews
    /\ prev' = [prev EXCEPT !.reqs = Append(@, [page |-> page, dpi |-> dpi,
                                                 quality |-> quality, st |-> "rendering"])]
    /\ UNCHANGED <<jobVars, cb, run, gui, logg, cfgs>>

\* _update_preview_images with a field int() rejects: the info label shows
\* the error and no thread is started
UpdatePreviewInvalid ==
    /\ pc = "preview"
    /\ prev.info.kind # "error"
    /\ prev' = [prev EXCEPT !.info = [kind |-> "error", dpi |-> 0, quality |-> 0]]
    /\ UNCHANGED <<jobVars, cb, run, gui, logg, cfgs>>

\* the thread of request i ends _render_and_load_images: with both renderings
\* and the size it posts _display_images with its own arguments, after an
\* exception it posts the error box; root.after(0, ...) queues either behind
\* the callbacks already posted
RenderAndLoadImages(i, ok) ==
    /\ pc = "preview"
    /\ i \in DOMAIN prev.reqs
    /\ prev.reqs[i].st = "rendering"
    /\ prev' = [prev EXCEPT !.reqs[i].st = IF ok THEN "rendered" ELSE "failed",
                             !.afterQ = Append(@, i)]
    /\ UNCHANGED <<jobVars, cb, run, gui, logg, cfgs>>

\* the Tk event loop runs the oldest posted callback: _display_images puts the
\* images and the info text of that request on the labels, the error box
\* leaves the labels alone
DisplayImages ==
    /\ pc = "preview"
    /\ prev.afterQ # <<>>
    /\ LET i == Head(prev.afterQ)
       IN  IF prev.reqs[i].st = "rendered"
             THEN prev' = [prev EXCEPT
                             !.afterQ = Tail(@),
                             !.reqs[i].st = "shown",
                             !.image = PreviewArgs(i),
                             !.info = [kind |-> "preview", dpi |-> prev.reqs[i].dpi,
                                       quality |-> prev.reqs[i].quality]]
             ELSE prev' = [prev EXCEPT !.afterQ = Tail(@), !.reqs[i].st = "reported"]
    /\ UNCHANGED <<jobVars, cb, run, gui, logg, cfgs>>

NextPreview ==
    \/ \E page \in PreviewPages, dpi \in PreviewDpis, quality \in PreviewQualities :
          UpdatePreviewImages(page, dpi, quality)
    \/ UpdatePreviewInvalid
    \/ \E i \in 1..MaxPreviews, ok \in BOOLEAN : RenderAndLoadImages(i, ok)
    \/ DisplayImages

SpecPreview == InitPreview /\ [][NextPreview]_vars

(* ----------------------------- setup_logging -------------------------- *)
\* the levels of the logging module, lowest first; NOTSET is below them all
LevelNames == <<"DEBUG", "INFO", "WARNING", "ERROR", "CRITICAL">>
Levels == {LevelNames[i] : i \in DOMAIN LevelNames}
Rank(l) == IF l = "NOTSET" THEN 0 ELSE CHOOSE i \in DOMAIN LevelNames : LevelNames[i] = l

\* the logfile argument: None, or one of two paths
NoLogfile == "None"
Logfiles == {"a.log", "b.log"}

\* the handlers the root logger holds of one kind
HandlersOf(kind) == {i \in DOMAIN logg.handlers : logg.handlers[i].kind = kind}

\* a record of level l logged on the root logger is emitted by handler h:
\* logging.disable does not cover it, the root level admits it and so does
\* the handler's own level
EmitsAt(h, l) ==
    /\ Rank(l) > Rank(logg.disable)
    /\ Rank(l) >= Rank(logg.level)
    /\ Rank(l) >= Rank(h.level)

\* the kinds of handler that emit a record of level l
Emitters(l) ==
    {logg.handlers[i].kind : i \in {j \in DOMAIN logg.handlers : EmitsAt(logg.handlers[j], l)}}

\* the logging module in a fresh process of either program: a root logger at
\* WARNING with no handler, nothing disabled
InitLogging ==
    /\ QuietJob
    /\ pc = "logging"
    /\ \E prog \in {"cli", "gui"} :
          logg = [prog |-> prog, handlers |-> <<>>, level |-> "WARNING",
                  disable |-> "NOTSET", calls |-> 0,
                  last |-> [logfile |-> NoLogfile, debug |-> FALSE],
                  rec |-> [level |-> "NOTSET", by |-> {}]]
    /\ cb = NoCallback
    /\ run = 0
    /\ gui = NoGui
    /\ prev = NoPrev
    /\ cfgs = NoCfgs

\* the handlers a call installs after removing the old ones: the console
\* handler at the given level, then the file handler at DEBUG if a logfile
\* was given
NewHandlers(consoleLevel, logfile) ==
    <<[kind |-> "console", level |-> consoleLevel, file |-> NoLogfile]>>
    \o (IF logfile # NoLogfile
          THEN <<[kind |-> "file", level |-> "DEBUG", file |-> logfile]>>
          ELSE <<>>)

\* setup_logging(logfile) of pdf_to_cbz.py
SetupLoggingCli(logfile) ==
    /\ pc = "logging"
    /\ logg.prog = "cli"
    /\ logg.calls < MaxSetups
    /\ logg' = [logg EXCEPT
                  !.handlers = NewHandlers(IF logfile # NoLogfile THEN "INFO" ELSE "ERROR",
                                           logfile),
                  !.level = IF logfile # NoLogfile THEN "DEBUG" ELSE "INFO",
                  !.disable = IF logfile = NoLogfile THEN "WARNING" ELSE @,
                  !.calls = @ + 1,
                  !.last = [logfile |-> logfile, debug |-> FALSE]]
    /\ UNCHANGED <<jobVars, cb, run, gui, prev, cfgs>>

\* setup_logging(logfile, debug) of pdf_to_cbz_gui.py
SetupLoggingGui(logfile, debug) ==
    /\ pc = "logging"
    /\ logg.prog = "gui"
    /\ logg.calls < MaxSetups
    /\ logg' = [logg EXCEPT
                  !.handlers = NewHandlers(IF debug THEN "DEBUG"
                                           ELSE IF logfile # NoLogfile THEN "INFO"
                                           ELSE "ERROR",
                                           logfile),
                  !.level = "DEBUG",
                  !.disable = IF logfile = NoLogfile /\ ~debug THEN "WARNING" ELSE "NOTSET",
                  !.calls = @ + 1,
                  !.last = [logfile |-> logfile, debug |-> debug]]
    /\ UNCHANGED <<jobVars, cb, run, gui, prev, cfgs>>

\* logging.log(l, ...) after a setup_logging call: the record goes to the
\* handlers that emit it
LogRecord(l) ==
    /\ pc = "logging"
    /\ logg.calls > 0
    /\ logg' = [logg EXCEPT !.rec = [level |-> l, by |-> Emitters(l)]]
    /\ UNCHANGED <<jobVars, cb, run, gui, prev, cfgs>>

NextLogging ==
    \/ \E logfile \in Logfiles \cup {NoLogfile} : SetupLoggingCli(logfile)
    \/ \E logfile \in Logfiles \cup {NoLogfile}, debug \in BOOLEAN :
          SetupLoggingGui(logfile, debug)
    \/ \E l \in Levels : LogRecord(l)

SpecLogging == InitLogging /\ [][NextLogging]_vars

(* ------------------------ ConfigManager objects ------------------------ *)
\* A dict of the configuration has its plain values under val and, for the
\* keys whose value is itself a dict, the identity of that dict under ref
\* (its place in cfgs.heap, 0: key absent). A nested dict maps each of its
\* possible keys to a value or to Missing.
ScalarKeys == {"dpi", "quality"}
DictKeys == {"logging", "extra"}
NestedKeys == {"level", "console", "flag"}
Missing == "<missing>"
EmptyDict == [k \in NestedKeys |-> Missing]

\* the keys set and get are called with, split at the dots
ConfigKeys ==
    {<<"dpi">>, <<"quality">>, <<"logging", "level">>, <<"logging", "console">>,
     <<"extra", "flag">>}

\* the values set is called with, by the last part of the key
ValuesOf ==
    [dpi |-> {"None", "300"}, quality |-> {"85", "50"}, level |-> {"INFO", "DEBUG"},
     console |-> {"True", "False"}, flag |-> {"True", "False"}]

\* what DEFAULT_CONFIG says for a key; get's default None for a key it lacks
BuiltIn(key) ==
    CASE key = <<"dpi">> -> "None"
      [] key = <<"quality">> -> "85"
      [] key = <<"logging", "level">> -> "INFO"
      [] key = <<"logging", "console">> -> "True"
      [] OTHER -> "None"

\* get(key) on the dict d, with default None
Get(d, key) ==
    IF Len(key) = 1
      THEN d.val[key[1]]
      ELSE IF d.ref[key[1]] = 0
             THEN "None"
             ELSE LET v == cfgs.heap[d.ref[key[1]]][key[2]]
                  IN  IF v = Missing THEN "None" ELSE v

\* the class after its definition: DEFAULT_CONFIG with its nested "logging"
\* dict, and no instance
InitManagers ==
    /\ QuietJob
    /\ pc = "config"
    /\ cfgs = [heap |-> <<[level |-> "INFO", console |-> "True", flag |-> Missing]>>,
                default |-> [val |-> [dpi |-> "None", quality |-> "85"],
                             ref |-> [logging |-> 1, extra |-> 0]],
                inst |-> <<>>]
    /\ cb = NoCallback
    /\ run = 0
    /\ gui = NoGui
    /\ prev = NoPrev
    /\ logg = NoLog

\* ConfigManager() where no config file exists: self.config is
\* DEFAULT_CONFIG.copy(), a new top-level dict holding the same values and
\* the same nested dicts; load_config finds nothing to merge
NewConfigManager ==
    /\ pc = "config"
    /\ Len(cfgs.inst) < MaxManagers
    /\ cfgs' = [cfgs EXCEPT !.inst = Append(@, [val |-> cfgs.default.val,
                                                ref |-> cfgs.default.ref,
                                                touched |-> FALSE])]
    /\ UNCHANGED <<jobVars, cb, run, gui, prev, logg>>

\* manager m's set(key, value): a one-part key is stored in self.config; for
\* a two-part key the loop steps into self.config[first], making an empty
\* dict there if the key is absent, and stores in that dict
ConfigSet(m, key, value) ==
    /\ pc = "config"
    /\ m \in DOMAIN cfgs.inst
    /\ IF Len(key) = 1
         THEN cfgs' = [cfgs EXCEPT !.inst[m].val[key[1]] = value,
                                   !.inst[m].touched = TRUE]
         ELSE IF cfgs.inst[m].ref[key[1]] = 0
                THEN cfgs' = [cfgs EXCEPT
                                !.heap = Append(@, [EmptyDict EXCEPT ![key[2]] = value]),
                                !.inst[m].ref[key[1]] = Len(cfgs.heap) + 1,
                                !.inst[m].touched = TRUE]
                ELSE cfgs' = [cfgs EXCEPT
                                !.heap[cfgs.inst[m].ref[key[1]]][key[2]] = value,
                                !.inst[m].touched = TRUE]
    /\ UNCHANGED <<jobVars, cb, run, gui, prev, logg>>

NextManagers ==
    \/ NewConfigManager
    \/ \E m \in 1..MaxManagers, key \in ConfigKeys :
          \E value \in ValuesOf[key[Len(key)]] : ConfigSet(m, key, value)

SpecManagers == InitManagers /\ [][NextManagers]_vars

(* ====================================================================== *)
(*                         Properties of convert()                        *)
(* ====================================================================== *)
\* the pages whose rendering succeeded (through either renderer)
RenderedPages ==
    {p \in Pages : task[p].st = "done" /\ task[p].last \in PrimaryProduced \cup {"image"}}
\* the pages for which both renderers failed
RenderFailedPages ==
    {p \in Pages : task[p].st = "done" /\ task[p].last \in {"no_images", "fb_raised"}}
\* the file at the output path is as it was before the operation
OutputUntouched == outFile \in {NoFile, StaleFile}
\* positions of the archive's entries
EntryIdx == DOMAIN outFile.entries
\* {stem}_{i:03d}.{ext} written out position by position, for i < 1000
ExpectedName(i) ==
    <<Stem, "_",
      DigitChars[((i \div 100) % 10) + 1],
      DigitChars[((i \div 10) % 10) + 1],
      DigitChars[(i % 10) + 1],
      ".",
      CASE conv.fmt = "jpeg" -> "jpg" [] conv.fmt = "png" -> "png">>
\* number of entries of the archive that hold page p
EntriesOfPage(p) == Cardinality({k \in EntryIdx : outFile.entries[k].data.page = p})

\* C1: when every page of a P-page document rendered successfully and convert()
\* has returned, the archive holds exactly P entries, one named
\* {stem}_{i:03d}.{ext} for each i in 1..P, and no other entry (none of a file
\* that was at the output path before).
C1_ExactlyPEntries ==
    (op = "convert" /\ pc = "done" /\ RenderedPages = Pages) =>
        /\ outFile.exists
        /\ Len(outFile.entries) = doc.pages
        /\ \A i \in 1..doc.pages :
              Cardinality({k \in EntryIdx : outFile.entries[k].name = ExpectedName(i)}) = 1
        /\ \A k \in EntryIdx :
              \E i \in 1..doc.pages : outFile.entries[k].name = ExpectedName(i)

\* C1 witness: a full run of a MaxPages-page document, all pages rendered
C1_Witness ==
    /\ op = "convert" /\ pc = "done"
    /\ doc.pages = MaxPages
    /\ RenderedPages = Pages
    /\ Len(outFile.entries) = MaxPages

\* C2: a page whose rendering failed never makes convert() raise (convert() only
\* raises before any task is submitted), and when convert() has returned every
\* page has been collected and the archive holds exactly the pages that did not
\* fail: P - |F| entries.
C2_PageFailureTolerated ==
    /\ (op = "convert" /\ pc = "failed") => (submitted = 0 /\ RenderFailedPages = {})
    /\ (op = "convert" /\ pc = "done") =>
          /\ collected = Pages
          /\ RenderedPages \cup RenderFailedPages = Pages
          /\ Len(outFile.entries) = doc.pages - Cardinality(RenderFailedPages)
          /\ \A p \in Pages :
                EntriesOfPage(p) = (IF p \in RenderFailedPages THEN 0 ELSE 1)

\* C2 witness: a run that returned with exactly one failed page and P-1 entries
C2_Witness ==
    /\ op = "convert" /\ pc = "done"
    /\ doc.pages = MaxPages
    /\ Cardinality(RenderFailedPages) = 1
    /\ Len(outFile.entries) = MaxPages - 1

\* convert() has closed the archive it opened
ArchiveClosedByConvert == op = "convert" /\ ~zfOpen /\ ~OutputUntouched

\* C3: the archive is closed only after every page index in 1..pageCount has been
\* submitted as one task and has yielded exactly one outcome (one entry written
\* or one logged failure), no worker task still running.
C3_ClosedOnlyAfterAllOutcomes ==
    ArchiveClosedByConvert =>
        /\ submitted = total
        /\ Running = {}
        /\ \A p \in 1..total :
              /\ task[p].primCalls = 1
              /\ EntriesOfPage(p) + failLog[p] = 1

\* C4: the name of an entry is fixed by the stem, the page its bytes show and the
\* format, whichever renderer made the bytes and wherever in the completion order
\* it was written; so the set of names of a finished run is fixed by the job and
\* the set of pages that rendered.
C4_NameFromPageOnly ==
    (op = "convert" /\ ~OutputUntouched) =>
        /\ \A k \in EntryIdx :
              outFile.entries[k].name = ExpectedName(outFile.entries[k].data.page)
        /\ pc = "done" =>
              {outFile.entries[k].name : k \in EntryIdx} =
                  {ExpectedName(p) : p \in RenderedPages}

\* C4 witness: every page went through the fallback and the entries were written
\* against page order
C4_Witness ==
    /\ op = "convert" /\ pc = "done"
    /\ Len(outFile.entries) = MaxPages
    /\ \A k \in EntryIdx : outFile.entries[k].data.renderer = "pdf2image"
    /\ outFile.entries[1].data.page = MaxPages
    /\ outFile.entries[MaxPages].data.page = 1

\* the primary outcomes that are not "exit 0 with the page's file"
PrimaryFailures == {"not_found", "raised", "nonzero", "zero_nofile"}

\* C5: when the primary ends not found, raising, non-zero or zero without a file,
\* the fallback is invoked, once, for the same page and DPI; and a fallback that
\* yields an image makes the page succeed with that image.
C5_FallbackOnPrimaryFailure ==
    [][\A p \in Pages :
          /\ (task[p].st = "primary" /\ task'[p].st # "primary"
                /\ task'[p].last \in PrimaryFailures) =>
                 /\ task'[p].st = "fallback"
                 /\ task'[p].fbCalls = 1
                 /\ task'[p].fbPage = task[p].primPage
                 /\ task'[p].fbDpi = task[p].primDpi
          /\ (task[p].st = "fallback" /\ task'[p].st # "fallback"
                /\ task'[p].last = "image") =>
                 /\ task'[p].st = "done"
                 /\ task'[p].ok
                 /\ task'[p].data.renderer = "pdf2image"
                 /\ task'[p].data.page = task[p].primPage
                 /\ task'[p].data.dpi = task[p].primDpi]_vars

\* C5 witness: a page that succeeded through the fallback at the computed DPI
C5_Witness ==
    /\ doc.width > 0
    /\ \E p \in Pages :
          /\ task[p].st = "done" /\ task[p].ok
          /\ task[p].last = "image"
          /\ task[p].fbCalls = 1
          /\ task[p].data.dpi = ClarityDpi(doc.width)
          /\ p \in collected

\* C6: each renderer is attempted at most once per page; a page whose two
\* renderers failed ends process_page in failure after exactly one attempt of
\* each, and convert() logs a failure for exactly that page, once.
C6_NoRetryFailureRecorded ==
    \A p \in Pages :
        /\ task[p].primCalls <= 1 /\ task[p].fbCalls <= 1
        /\ p \in RenderFailedPages =>
              (~task[p].ok /\ task[p].primCalls = 1 /\ task[p].fbCalls = 1)
        /\ failLog[p] = (IF p \in RenderFailedPages /\ p \in collected THEN 1 ELSE 0)

\* C6 witness: one page failed and was logged while another page was written
C6_Witness ==
    \E p, q \in Pages :
        /\ p \in RenderFailedPages /\ failLog[p] = 1
        /\ q \in RenderedPages /\ q \in collected /\ failLog[q] = 0

\* renderer processes in flight: the pdftocairo of a task in "primary", the
\* poppler process pdf2image started for a task in "fallback"
ExternalProcesses ==
    {<<p, "pdftocairo">> : p \in {q \in Pages : task[q].st = "primary"}}
        \cup {<<p, "pdf2image">> : p \in {q \in Pages : task[q].st = "fallback"}}

\* C7: never more tasks executing, and never more renderer processes in flight,
\* than the threads value of the Converter.
C7_PoolBoundsConcurrency ==
    /\ Cardinality(Running) <= conv.threads
    /\ Cardinality(ExternalProcesses) <= conv.threads

\* C7 witness: the pool is full while a task waits in the queue
C7_Witness ==
    /\ conv.threads = MaxThreads
    /\ Cardinality(Running) = MaxThreads
    /\ \E p \in Pages : task[p].st = "queued"

\* C8: a step that changes the file at the output path is a step of the
\* orchestrating thread (it changes no worker task), and a step of a worker
\* leaves the file as it is.
C8_OnlyOrchestratorWrites ==
    [][(outFile' # outFile) =>
          /\ task' = task
          /\ pc \in {"open", "collect"}]_vars

\* C8 witness: an entry has been written while a worker is still rendering
C8_Witness ==
    /\ Len(outFile.entries) >= 1
    /\ op = "convert" /\ ~OutputUntouched
    /\ Running # {}

\* C9: when reading the page count fails, convert() ends failed with the file at
\* the output path neither created nor truncated and no task submitted.
C9_UnreadableNoOutput ==
    (op = "convert" /\ raised = "PdfReadError") =>
        /\ pc = "failed"
        /\ OutputUntouched
        /\ ~zfOpen
        /\ submitted = 0
        /\ \A p \in Pages : task[p].st = "none"

\* C9 witness: the failed run left an earlier file in place
C9_Witness ==
    /\ op = "convert" /\ pc = "failed" /\ raised = "PdfReadError"
    /\ outFile = StaleFile

\* C10: no step of an analysis (analyse() or the GUI's analyse-only task)
\* changes the file at the output path.
C10_AnalysisLeavesOutput ==
    [][(op' \in {"analyse", "gui_analyse"}) => (outFile' = outFile /\ zfOpen' = FALSE)]_vars

\* C10 witness: an analysis completed with a file present at the output path
C10_Witness ==
    /\ op \in {"analyse", "gui_analyse"}
    /\ pc = "analysed"
    /\ outFile = StaleFile

\* C15: a task inside process_page has a temporary directory that no other
\* task has, and a task that has left process_page (with the primary's image,
\* with the fallback's image, or raising after both failed) has none: its
\* directory is gone.  A task not yet started has none either.
C15_TempDirOwnedAndRemoved ==
    /\ \A p \in Pages :
          /\ p \in Running => (task[p].tmp /\ task[p].td # 0)
          /\ p \notin Running => (~task[p].tmp /\ task[p].td = 0)
    /\ \A p, q \in Running : p # q => task[p].td # task[q].td
    /\ Cardinality(TmpLive) = Cardinality(Running)

\* C15 witness: page 1 left through the primary, page 2 through the fallback,
\* page 3 raised, and none of the three directories is left
C15_Witness ==
    /\ doc.pages = 3
    /\ task[1].st = "done" /\ task[1].last \in PrimaryProduced
    /\ task[2].st = "done" /\ task[2].last = "image"
    /\ task[3].st = "done" /\ task[3].last \in {"no_images", "fb_raised"}
    /\ TmpLive = {}
    /\ \A p \in Pages : task[p].primCalls = 1

\* the pages whose image was returned by the worker but whose zf.writestr raised
WriteFailedPages == {p \in collected : task[p].ok /\ p \in writeFault}

\* C16: once writing an entry has failed the run is aborted: convert() has
\* raised, it does not go on collecting and it does not complete normally.
C16_WriteFailureFatal ==
    WriteFailedPages # {} => (pc = "failed" /\ raised # "none")

\* the suffixes that spell .pdf in some mix of upper and lower case
PdfSuffixes == {<<".", "p", "d", "f">>, <<".", "P", "D", "F">>, <<".", "P", "d", "f">>}
\* the input paths the entry point is to reject
BadInput == ~cli.isFile \/ cli.suffix \notin PdfSuffixes

\* C17: once main() is past its checks, a path that is not a file or does not
\* end in .pdf (in any case) has ended the program with status 1, no operation
\* of a Converter begun, the output path as it was, nothing submitted or
\* rendered; any other path has passed without an exit.
C17_BadInputExitsEarly ==
    pc # "main" =>
        /\ BadInput =>
              /\ pc = "exited" /\ cli.exitCode = 1
              /\ op = "none" /\ OutputUntouched /\ ~zfOpen
              /\ submitted = 0
              /\ est.calls = 0
              /\ \A p \in Pages : task[p].primCalls = 0 /\ task[p].fbCalls = 0
        /\ ~BadInput => (pc # "exited" /\ cli.exitCode = -1)

\* C17 witness: a readable one-page PDF under a name ending in .txt was
\* rejected, and the file already at the output path is still there
C17_Witness ==
    /\ pc = "exited" /\ cli.exitCode = 1
    /\ cli.isFile /\ cli.suffix = <<".", "t", "x", "t">>
    /\ doc.readable /\ doc.pages = 1
    /\ outFile = StaleFile

\* C18: when convert() has returned, the failed pages it reported are exactly
\* the pages whose rendering failed, and the number it reported for the pages
\* done is the number of successes, P minus the number of failed pages.
C18_SummaryOfRun ==
    (op = "convert" /\ pc = "done") =>
        /\ LoggedFailed = RenderFailedPages
        /\ ProgressCount = doc.pages - Cardinality(RenderFailedPages)

\* C21: a page whose pdftocairo run exited zero with its file never gets the
\* fallback: its task is done with pdftocairo's bytes and no call of
\* convert_from_path; the bytes of an entry are those its page's task returned,
\* from the one renderer that made them; and no page has more than one entry.
C21_OneRendererOneEntry ==
    /\ \A p \in Pages :
          /\ task[p].last \in PrimaryProduced =>
                /\ task[p].st = "done" /\ task[p].ok
                /\ task[p].fbCalls = 0
                /\ task[p].data.renderer = "pdftocairo"
          /\ (task[p].ok /\ task[p].fbCalls = 1) => task[p].data.renderer = "pdf2image"
          /\ op = "convert" => EntriesOfPage(p) <= 1
    /\ (op = "convert" /\ ~OutputUntouched) =>
          \A k \in EntryIdx :
              outFile.entries[k].data = task[outFile.entries[k].data.page].data

\* C21 witness: in one archive, a page pdftocairo rendered (several files
\* left, fallback never called) and a page only the fallback rendered
C21_Witness ==
    /\ op = "convert" /\ pc = "done"
    /\ \E p, q \in Pages :
          /\ task[p].last = "zero_multi" /\ task[p].fbCalls = 0
          /\ EntriesOfPage(p) = 1
          /\ task[q].last = "image" /\ task[q].fbCalls = 1
          /\ EntriesOfPage(q) = 1

\* C22: the entries of the archive are written in page order: of two entries
\* the earlier one holds the lower page, whatever order the workers finished in.
C22_WrittenInPageOrder ==
    (op = "convert" /\ ~OutputUntouched) =>
        \A k, m \in EntryIdx :
            k < m => outFile.entries[k].data.page < outFile.entries[m].data.page

\* C23: the calls of the progress callback are numbered 1, 2, ... without a
\* gap, each with the page count as total; there is one call for each future
\* collected so far, written or failed, and when convert() has returned there
\* are exactly P calls, the last with completed = total.
C23_ProgressCountsEveryPage ==
    (cb.given /\ op = "convert") =>
        /\ Len(cb.calls) = Cardinality(collected)
        /\ \A i \in DOMAIN cb.calls :
              cb.calls[i].completed = i /\ cb.calls[i].total = doc.pages
        /\ pc = "done" =>
              /\ Len(cb.calls) = doc.pages
              /\ doc.pages > 0 => cb.calls[doc.pages].completed = doc.pages

\* C23 witness: a finished run of MaxPages pages, one of them failed, with
\* MaxPages calls of the callback
C23_Witness ==
    /\ cb.given /\ op = "convert" /\ pc = "done"
    /\ doc.pages = MaxPages
    /\ Cardinality(RenderFailedPages) = 1
    /\ Len(cb.calls) = MaxPages
    /\ cb.calls[MaxPages] = [completed |-> MaxPages, total |-> MaxPages]

\* C24: a convert() that raised before any page was dispatched (the worker
\* pool could not be started, or an earlier step failed) has left the output
\* path as it was: no file created, an existing file not truncated.
C24_EarlyFailureLeavesOutput ==
    (op = "convert" /\ pc = "failed" /\ submitted = 0) => OutputUntouched

\* C25: on a Converter made without a DPI override, every call of convert()
\* that gets past resolving the DPI has called calculate_clarity_dpi itself:
\* after run earlier calls, the estimator has been called run + 1 times.
C25_EstimateRecomputedEachRun ==
    (est.arg = 0 /\ op = "convert" /\ pc \notin {"idle", "resolve_dpi", "failed"}) =>
        est.calls = run + 1

\* C26: whichever renderer made an image, it was made for the task's page at
\* the run's DPI in the configured format, and with the configured JPEG quality
\* when the format is jpeg (with no quality when it is png).
C26_SameParametersBothRenderers ==
    \A p \in Pages :
        task[p].ok =>
            /\ task[p].data.page = p
            /\ task[p].data.dpi = conv.dpi
            /\ task[p].data.fmt = conv.fmt
            /\ task[p].data.quality = (IF conv.fmt = "jpeg" THEN conv.quality ELSE 0)

(* ====================================================================== *)
(*                    Properties of the DPI of a run                      *)
(* ====================================================================== *)
\* the DPI the pages of this run are to be rendered at
RunDpi == IF est.arg # 0 THEN est.arg ELSE est.value

ReturnedForPage == calc.status = "returned" /\ doc.pages > 0 /\ doc.width > 0
\* the minimum DPI of the variant called
FloorOfVariant == IF calc.variant = "gui" THEN GuiMinDpi ELSE MinDpi
\* the larger of two integers
Larger(a, b) == IF a >= b THEN a ELSE b

\* C12 as stated: for a positive width w the result is
\* max(round(2000 / (w / 72)), floor), floor 100 in pdf_to_cbz.py and 150 in
\* pdf_to_cbz_gui.py, and 242 for w = 595.
C12_RoundedQuotient ==
    ReturnedForPage =>
        /\ calc.result =
              Larger(RoundHalfEven(TargetWidth * PointsPerInch, doc.width), FloorOfVariant)
        /\ doc.width = 595 => calc.result = 242

\* C12 amended: for a positive width w the result is max(q, floor) with q the
\* quotient 2000 / (w / 72) cut to its integer part (q * w <= 144000 <
\* (q + 1) * w), one less in pdf_to_cbz_gui.py at the widths where the
\* floating-point quotient falls just under an exact integer; floor is 100 in
\* pdf_to_cbz.py and 150 in pdf_to_cbz_gui.py, and the result for w = 595 is 242.
C12_TruncatedQuotient ==
    ReturnedForPage =>
        LET q == (TargetWidth * PointsPerInch) \div doc.width
            under == IF calc.variant = "gui" /\ doc.width \in GuiShortWidths THEN 1 ELSE 0
        IN  /\ q * doc.width <= TargetWidth * PointsPerInch
            /\ TargetWidth * PointsPerInch < (q + 1) * doc.width
            /\ calc.result = Larger(q - under, FloorOfVariant)
            /\ doc.width = 595 => calc.result = 242

\* C12 witness: a width at which cutting and rounding differ (144000 / 596 is
\* 241.6...) and the call returned the cut value
C12_Witness ==
    /\ ReturnedForPage
    /\ doc.width = 596
    /\ calc.result = 241

\* the result of the variant called, for a first page of width w > 0
ClarityOfVariant(w) == IF calc.variant = "gui" THEN GuiClarityDpi(w) ELSE ClarityDpi(w)

\* C13: for positive widths w1 <= w2 the clarity DPI for w1 is at least the
\* clarity DPI for w2 (w2 the width of the call made, w1 every narrower width).
C13_MonotoneInWidth ==
    ReturnedForPage =>
        \A w1 \in 1..doc.width : ClarityOfVariant(w1) >= calc.result

\* C13 witness: a call for a width above the clamp region returned less than
\* the DPI of a narrower page
C13_Witness ==
    /\ ReturnedForPage
    /\ doc.width = 596
    /\ calc.result < ClarityOfVariant(595)
    /\ calc.result > FloorOfVariant

\* C14: for a document with no page, or a first page of width <= 0, the call
\* returns, without raising, the same fixed DPI in both cases (the default 150
\* of pdf_to_cbz_gui.py; pdf_to_cbz.py has no default but its minimum).
C14_DegenerateGivesDefault ==
    (calc.status # "ready" /\ calc.variant # "none"
        /\ (doc.pages = 0 \/ doc.width <= 0)) =>
        /\ calc.status = "returned"
        /\ calc.exc = "none"
        /\ calc.result = (IF calc.variant = "gui" THEN GuiDefaultDpi ELSE MinDpi)

C27_RunButtonGuardsTask ==
    /\ ActiveTasks <= 1
    /\ ActiveTasks > 0 => gui.state["run"] = "disabled"
    /\ ActiveTasks = 0 => gui.state["run"] = "normal"

\* C28: once every render thread has finished and its callback has run, and
\* the most recent request was rendered, the preview image and the info line
\* are those of the most recent request.
C28_LatestRequestShown ==
    LET n == Len(prev.reqs)
    IN  (/\ n > 0
         /\ \A i \in 1..n : prev.reqs[i].st \in {"shown", "reported"}
         /\ prev.reqs[n].st = "shown"
         /\ prev.info.kind # "error")
        => /\ prev.image = PreviewArgs(n)
           /\ prev.info = [kind |-> "preview", dpi |-> prev.reqs[n].dpi,
                           quality |-> prev.reqs[n].quality]

(* ====================================================================== *)
(*                       Properties of setup_logging                      *)
(* ====================================================================== *)
\* C29: after any sequence of setup_logging calls the root logger has exactly
\* one console handler, and one file handler (on the last call's logfile) if
\* and only if the last call gave a logfile; with a logfile, INFO and above
\* are emitted by the console handler and DEBUG and above by the file handler;
\* with no logfile and no debug, exactly ERROR and above are emitted.
C29_LoggingReflectsLastCall ==
    logg.calls > 0 =>
        /\ Cardinality(HandlersOf("console")) = 1
        /\ IF logg.last.logfile # NoLogfile
             THEN /\ Cardinality(HandlersOf("file")) = 1
                  /\ \A i \in HandlersOf("file") : logg.handlers[i].file = logg.last.logfile
                  /\ \A l \in Levels : Rank(l) >= Rank("INFO") => "console" \in Emitters(l)
                  /\ \A l \in Levels : "file" \in Emitters(l)
             ELSE /\ HandlersOf("file") = {}
                  /\ ~logg.last.debug =>
                        \A l \in Levels : Emitters(l) # {} <=> Rank(l) >= Rank("ERROR")

(* ====================================================================== *)
(*                       Properties of ConfigManager                      *)
(* ====================================================================== *)
\* C30: whatever set calls were made on some managers, DEFAULT_CONFIG still
\* holds the built-in default of every key, and so does every manager on
\* which set was never called.
C30_SetTouchesOneManager ==
    \A key \in ConfigKeys :
        /\ Get(cfgs.default, key) = BuiltIn(key)
        /\ \A m \in DOMAIN cfgs.inst :
              ~cfgs.inst[m].touched => Get(cfgs.inst[m], key) = BuiltIn(key)

====
